---- MODULE Spec2Model ----
(***************************************************************************)
(* The concurrent acquisition / rendering pipeline of the air quality      *)
(* monitor: DataHistory and AirQualityMonitor of src/monitor.py and of     *)
(* src/analyse.py, the page selection of src/display.py and the sensor     *)
(* ports of src/dev_utils/mock_sensors.py.                                 *)
(*                                                                         *)
(* The two monitors share DataHistory and the shape of both loops.  They   *)
(* differ in three places, selected by the variable variant:               *)
(*   "monitor": periodic measurement is started by __init__, the recovery  *)
(*              path only sleeps, the frame is drawn by DisplayManager;    *)
(*   "analyse": periodic measurement is not started by __init__, the       *)
(*              recovery path calls start_periodic_measurement, the frame  *)
(*              is drawn by the _draw_* methods, which read the history.   *)
(*                                                                         *)
(* The value a sensor returns for quantity q in acquisition cycle c is the  *)
(* number 10 * c + q, so that a field of a Sample names the cycle and the   *)
(* quantity of the read that produced it.                                  *)
(***************************************************************************)
EXTENDS Integers, Sequences, FiniteSets, TLC

\* ------------------------------------------------------------------ bounds
\* Number of acquisition cycles a run may start.
MaxCycles == 3
\* Capacity of the history store (max_history of DataHistory.__init__).
MaxHistory == 2
\* Number of seconds the wall clock may advance during a run.
MaxElapsed == 1

\* The wall-clock instants a run may start at: one second before a page
\* boundary of both monitors (12 = 2 * 6 = 3 * 4).
StartTimes == {11}

VARIABLES
    variant,         \* which monitor runs: "monitor" or "analyse"
    running,         \* AirQualityMonitor.running
    lock,            \* holder of AirQualityMonitor.reading_lock
    latest_reading,  \* AirQualityMonitor.latest_reading (the latest-reading cell)
    hist,            \* the nine deques of DataHistory
    csv,             \* the lines of DataHistory.csv_file
    measuring,       \* the CO2 sensor is in periodic-measurement mode
    humidity_cmds,   \* the arguments of the set_humidity commands sent so far
    now,             \* time.time(), in seconds
    boot_time,       \* time.time() when the monitor was constructed
    main_pc,         \* position of the thread calling start() and stop()
    mon_pc,          \* position of _monitoring_loop
    add_i,           \* index of the next append inside add_reading (0: none)
    cycle,           \* number of acquisition cycles started
    air_quality,     \* local of _monitoring_loop
    results,         \* local of _monitoring_loop
    pms_data,        \* local of _monitoring_loop
    reading,         \* local of _monitoring_loop
    disp_pc,         \* position of _display_loop
    d_reading,       \* local reading of _display_loop
    page,            \* local page of the frame being drawn
    trend_i,         \* index of the next trend arrow of the page (0: none)
    seen,            \* the history reads of the frame being drawn
    frame,           \* the Sample shown by the last frame pushed to the display
    push_result,     \* outcome of the display push of this iteration
    calls,           \* history: the Samples passed to add_reading, in order
    cell_writes,     \* history: the Samples written to the cell, in order
    ok_cycles,       \* history: the cycles that ended without an error
    failed,          \* history: number of cycles that ended in the except clause
    log_failures,    \* history: number of add_reading calls whose log write failed
    error,           \* the exception the except clause is handling ("none": none)
    restarts,        \* history: start_periodic_measurement calls since start()
    released,        \* history: stop_periodic_measurement has been called
    stop_error,      \* history: that call raised
    call,            \* a call of one of the pure methods: its name and arguments
    ret              \* what that call returned (None: it has not returned)

shared_vars == <<running, lock, latest_reading, hist, csv, measuring, humidity_cmds, now>>
main_vars == <<main_pc, released, stop_error>>
mon_vars == <<mon_pc, add_i, cycle, air_quality, results, pms_data, reading, error>>
disp_vars == <<disp_pc, d_reading, page, trend_i, seen, frame, push_result>>
ghost_vars == <<calls, cell_writes, ok_cycles, failed, log_failures, restarts>>
call_vars == <<call, ret>>
vars ==
    <<variant, boot_time, shared_vars, main_vars, mon_vars, disp_vars, ghost_vars,
      call_vars>>

\* ------------------------------------------------------------- data model
\* Python's None.
None == [isNone |-> TRUE]

Min(a, b) == IF a < b THEN a ELSE b

\* The deques of DataHistory, in the order add_reading appends to them.
AddOrder ==
    <<"temperature", "humidity", "co2", "tvoc", "eco2",
      "pm10", "pm25", "pm100", "timestamps">>

\* The field of AirQualityReading that add_reading appends to deque d.
SampleField(r, d) ==
    CASE d = "temperature" -> r.temperature
      [] d = "humidity" -> r.humidity
      [] d = "co2" -> r.co2
      [] d = "tvoc" -> r.tvoc
      [] d = "eco2" -> r.eco2
      [] d = "pm10" -> r.pm10
      [] d = "pm25" -> r.pm25
      [] d = "pm100" -> r.pm100
      [] d = "timestamps" -> r.timestamp

\* A deque that, when full, drops the new element instead of the oldest.
DequeAppendKeepOldest(d, x, n) ==
    IF Len(d) >= n THEN d ELSE Append(d, x)

\* collections.deque(maxlen=n).append(x): the oldest element is dropped
\* when the deque is full.
DequeAppend(d, x, n) ==
    IF n = 0 THEN <<>>
    ELSE IF Len(d) >= n THEN Append(Tail(d), x)
    ELSE Append(d, x)

\* DataHistory.__init__: nine empty deques of capacity max_history.
EmptyHistory == [d \in {AddOrder[i] : i \in 1..Len(AddOrder)} |-> <<>>]

\* The header row _init_csv writes.
Header ==
    <<"timestamp", "temperature", "humidity", "co2", "tvoc", "eco2",
      "pm10", "pm25", "pm100">>

\* datetime.fromtimestamp(t): a date-time value, not the float it is made from.
FromTimestamp(t) == [datetime |-> t]

\* A row with the temperature and humidity columns exchanged.
RowHumidityFirst(r) ==
    <<FromTimestamp(r.timestamp), r.humidity, r.temperature, r.co2, r.tvoc,
      r.eco2, r.pm10, r.pm25, r.pm100>>

\* The row add_reading writes for a reading.
Row(r) ==
    <<FromTimestamp(r.timestamp), r.temperature, r.humidity, r.co2, r.tvoc,
      r.eco2, r.pm10, r.pm25, r.pm100>>

\* ------------------------------------------------------------ sensor ports
\* The value read for quantity q in cycle c.
Measured(c, q) == 10 * c + q

\* What the three sensors return in cycle c: get_air_quality(), measure()
\* (co2, temperature, humidity, timestamp) and read().
AirQuality(c) == [equivalent_co2 |-> Measured(c, 1), total_voc |-> Measured(c, 2)]
Scd(c) ==
    [co2 |-> Measured(c, 3), temperature |-> Measured(c, 4),
     humidity |-> Measured(c, 5), timestamp |-> Measured(c, 6)]
Pms(c) == [pm_1_0 |-> Measured(c, 7), pm_2_5 |-> Measured(c, 8), pm_10 |-> Measured(c, 9)]

\* A compensation value computed from what the first cycle read.
AbsoluteHumidityOfFirstCycle(temperature, relative_humidity) ==
    [abs_humidity_of |-> <<Measured(1, 4), Measured(1, 5)>>]

\* _calculate_absolute_humidity: a function of the two arguments alone.
AbsoluteHumidity(temperature, relative_humidity) ==
    [abs_humidity_of |-> <<temperature, relative_humidity>>]

\* The AirQualityReading _monitoring_loop assembles from its locals.
MakeReading(aq, res, pms) ==
    [temperature |-> res.temperature,
     humidity |-> res.humidity,
     co2 |-> res.co2,
     tvoc |-> aq.total_voc,
     eco2 |-> aq.equivalent_co2,
     pm10 |-> pms.pm_1_0,
     pm25 |-> pms.pm_2_5,
     pm100 |-> pms.pm_10,
     timestamp |-> res.timestamp]

\* The Sample whose every field was read in cycle c.
SampleOf(c) == MakeReading(AirQuality(c), Scd(c), Pms(c))

\* ------------------------------------------------------------------- Init
\* The state after AirQualityMonitor.__init__, before start().
Constructed ==
    /\ variant \in {"monitor", "analyse"}
    /\ running = FALSE
    /\ lock = "free"
    /\ latest_reading = None
    /\ hist = EmptyHistory
    /\ csv = <<Header>>
    /\ measuring = (variant = "monitor")
    /\ humidity_cmds = <<>>
    /\ boot_time \in StartTimes
    /\ now = boot_time
    /\ main_pc = "constructed"
    /\ released = FALSE
    /\ stop_error = FALSE
    /\ mon_pc = "unstarted"
    /\ add_i = 0
    /\ cycle = 0
    /\ air_quality = None
    /\ results = None
    /\ pms_data = None
    /\ reading = None
    /\ disp_pc = "unstarted"
    /\ d_reading = None
    /\ page = 0
    /\ trend_i = 0
    /\ seen = <<>>
    /\ frame = None
    /\ push_result = "none"
    /\ calls = <<>>
    /\ cell_writes = <<>>
    /\ ok_cycles = <<>>
    /\ failed = 0
    /\ log_failures = 0
    /\ error = "none"
    /\ restarts = 0

\* A run of the two loops: no pure method is called on its own.
Init ==
    /\ Constructed
    /\ call = None
    /\ ret = None

\* ------------------------------------------------------- _monitoring_loop
\* A particulate read in a try block of its own, its error ignored.
ParticulateErrorIgnored(what) == IF what = "pms" THEN "check" ELSE "except"

\* try: ... except Exception as e: whatever statement of the try block
\* raises, the rest of the block is skipped.
ErrorHandler(what) == "except"

\* An exception raised inside the try block: control goes to the except
\* clause of the loop.
MonRaise(what) ==
    /\ mon_pc' = ErrorHandler(what)
    /\ failed' = failed + 1
    /\ error' = what

\* A loop that goes on whatever the flag says.
LoopIgnoresFlag(flag) == TRUE

\* while self.running: the condition both loops test before each iteration.
LoopCondition(flag) == flag

\* while self.running:
MonCheckRunning ==
    /\ mon_pc = "top"
    /\ IF LoopCondition(running)
       THEN /\ cycle < MaxCycles
            /\ cycle' = cycle + 1
            /\ mon_pc' = "read_voc"
       ELSE /\ mon_pc' = "done"
            /\ UNCHANGED cycle
    /\ UNCHANGED <<call_vars, variant, boot_time, shared_vars, main_vars, disp_vars, ghost_vars>>
    /\ UNCHANGED <<add_i, air_quality, results, pms_data, reading, error>>

\* air_quality = self.sgp30.get_air_quality()
MonReadVoc ==
    /\ mon_pc = "read_voc"
    /\ \E ok \in BOOLEAN :
         IF ok
         THEN /\ air_quality' = AirQuality(cycle)
              /\ mon_pc' = "read_co2"
              /\ UNCHANGED <<failed, error>>
         ELSE /\ MonRaise("voc")
              /\ UNCHANGED air_quality
    /\ UNCHANGED <<call_vars, variant, boot_time, shared_vars, main_vars, disp_vars>>
    /\ UNCHANGED <<add_i, cycle, results, pms_data, reading>>
    /\ UNCHANGED <<calls, cell_writes, ok_cycles, log_failures, restarts>>

\* results = self.scd41.measure(): None while periodic measurement is off
\* (MockSCD4x.measure), otherwise a measurement or an error.
MonReadCo2 ==
    /\ mon_pc = "read_co2"
    /\ IF ~measuring
       THEN /\ results' = None
            /\ mon_pc' = "read_pms"
            /\ UNCHANGED <<failed, error>>
       ELSE \E ok \in BOOLEAN :
              IF ok
              THEN /\ results' = Scd(cycle)
                   /\ mon_pc' = "read_pms"
                   /\ UNCHANGED <<failed, error>>
              ELSE /\ MonRaise("co2")
                   /\ UNCHANGED results
    /\ UNCHANGED <<call_vars, variant, boot_time, shared_vars, main_vars, disp_vars>>
    /\ UNCHANGED <<add_i, cycle, air_quality, pms_data, reading>>
    /\ UNCHANGED <<calls, cell_writes, ok_cycles, log_failures, restarts>>

\* pms_data = self.pms5003.read()
MonReadPms ==
    /\ mon_pc = "read_pms"
    /\ \E ok \in BOOLEAN :
         IF ok
         THEN /\ pms_data' = Pms(cycle)
              /\ mon_pc' = "check"
              /\ UNCHANGED <<failed, error>>
         ELSE /\ MonRaise("pms")
              /\ UNCHANGED pms_data
    /\ UNCHANGED <<call_vars, variant, boot_time, shared_vars, main_vars, disp_vars>>
    /\ UNCHANGED <<add_i, cycle, air_quality, results, reading>>
    /\ UNCHANGED <<calls, cell_writes, ok_cycles, log_failures, restarts>>

\* if results is None: raise ValueError("No results from SCD41")
MonCheckResults ==
    /\ mon_pc = "check"
    /\ IF results = None
       THEN MonRaise("nodata")
       ELSE /\ mon_pc' = "compensate"
            /\ UNCHANGED <<failed, error>>
    /\ UNCHANGED <<call_vars, variant, boot_time, shared_vars, main_vars, disp_vars>>
    /\ UNCHANGED <<add_i, cycle, air_quality, results, pms_data, reading>>
    /\ UNCHANGED <<calls, cell_writes, ok_cycles, log_failures, restarts>>

\* abs_humidity = self._calculate_absolute_humidity(temp, humidity)
\* self.sgp30.command("set_humidity", [abs_humidity])
MonCompensate ==
    /\ mon_pc = "compensate"
    /\ \E ok \in BOOLEAN :
         IF ok
         THEN /\ humidity_cmds' =
                   Append(humidity_cmds,
                          AbsoluteHumidity(results.temperature, results.humidity))
              /\ mon_pc' = "assemble"
              /\ UNCHANGED <<failed, error>>
         ELSE /\ MonRaise("compensation")
              /\ UNCHANGED humidity_cmds
    /\ UNCHANGED <<call_vars, variant, boot_time, running, lock, latest_reading, hist, csv, measuring, now>>
    /\ UNCHANGED <<main_vars, disp_vars>>
    /\ UNCHANGED <<add_i, cycle, air_quality, results, pms_data, reading>>
    /\ UNCHANGED <<calls, cell_writes, ok_cycles, log_failures, restarts>>

\* reading = AirQualityReading(...)
MonAssemble ==
    /\ mon_pc = "assemble"
    /\ reading' = MakeReading(air_quality, results, pms_data)
    /\ mon_pc' = "acquire"
    /\ UNCHANGED <<call_vars, variant, boot_time, shared_vars, main_vars, disp_vars, ghost_vars>>
    /\ UNCHANGED <<add_i, cycle, air_quality, results, pms_data, error>>

\* A with block that does not release the lock when it ends.
WithBlockKeepsLock(holder) == holder

\* The end of a with self.reading_lock block, by its last statement or by an
\* exception: the lock is released.
EndOfWithBlock(holder) == "free"

\* with self.reading_lock:
MonAcquire ==
    /\ mon_pc = "acquire"
    /\ lock = "free"
    /\ lock' = "monitor"
    /\ mon_pc' = "set_cell"
    /\ UNCHANGED <<call_vars, variant, boot_time, running, latest_reading, hist, csv, measuring, humidity_cmds, now>>
    /\ UNCHANGED <<main_vars, disp_vars, ghost_vars>>
    /\ UNCHANGED <<add_i, cycle, air_quality, results, pms_data, reading, error>>

\* A cell that is written only while it is empty.
CellKeepFirst(old, r) == IF old = None THEN r ELSE old

\* self.latest_reading = reading: the cell is overwritten, whatever it held.
CellWrite(old, r) == r

\* self.latest_reading = reading, then the call of add_reading(reading)
MonSetCell ==
    /\ mon_pc = "set_cell"
    /\ latest_reading' = CellWrite(latest_reading, reading)
    /\ cell_writes' = Append(cell_writes, latest_reading')
    /\ calls' = Append(calls, reading)
    /\ mon_pc' = "add_reading"
    /\ add_i' = 1
    /\ UNCHANGED <<call_vars, variant, boot_time, running, lock, hist, csv, measuring, humidity_cmds, now>>
    /\ UNCHANGED <<main_vars, disp_vars>>
    /\ UNCHANGED <<cycle, air_quality, results, pms_data, reading>>
    /\ UNCHANGED <<ok_cycles, failed, log_failures, error, restarts>>

\* An add_reading that lacks the append to the eco2 deque.
AddFieldSkipEco2(h, i, r) ==
    IF AddOrder[i] = "eco2" THEN h
    ELSE [h EXCEPT ![AddOrder[i]] =
             DequeAppend(@, SampleField(r, AddOrder[i]), MaxHistory)]

\* DataHistory.add_reading: the i-th of the nine appends.
AddField(h, i, r) ==
    [h EXCEPT ![AddOrder[i]] = DequeAppend(@, SampleField(r, AddOrder[i]), MaxHistory)]

MonAddField ==
    /\ mon_pc = "add_reading"
    /\ hist' = AddField(hist, add_i, reading)
    /\ IF add_i = Len(AddOrder)
       THEN /\ mon_pc' = "csv_write"
            /\ add_i' = 0
       ELSE /\ add_i' = add_i + 1
            /\ UNCHANGED mon_pc
    /\ UNCHANGED <<call_vars, variant, boot_time, running, lock, latest_reading, csv, measuring, humidity_cmds, now>>
    /\ UNCHANGED <<main_vars, disp_vars, ghost_vars>>
    /\ UNCHANGED <<cycle, air_quality, results, pms_data, reading, error>>

\* A csv file opened with mode "w": the write replaces what the file held.
CsvTruncateAndWrite(lines, r) == <<Row(r)>>

\* open(self.csv_file, "a") and writer.writerow(...): one row is appended.
CsvAppend(lines, r) == Append(lines, Row(r))

\* An add_reading that undoes its nine appends when the csv write raises.
HistoryRolledBack(h) ==
    [d \in DOMAIN h |-> IF h[d] = <<>> THEN <<>> ELSE SubSeq(h[d], 1, Len(h[d]) - 1)]

\* An add_reading that empties the deques when the csv write raises.
HistoryClearedAfterLogError(h) == [d \in DOMAIN h |-> <<>>]

\* add_reading has no handler around the csv write: when it raises, the
\* nine appends made before it stay.
HistoryAfterLogError(h) == h

\* DataHistory.add_reading: the row appended to the csv file.  The write
\* returns, and the with block releases the lock, or it raises, and the
\* with block releases the lock while the error goes to the except clause.

MonCsvWrite ==
    /\ mon_pc = "csv_write"
    /\ lock' = EndOfWithBlock(lock)
    /\ \E ok \in BOOLEAN :
         IF ok
         THEN /\ csv' = CsvAppend(csv, reading)
              /\ ok_cycles' = Append(ok_cycles, cycle)
              /\ UNCHANGED hist
              /\ mon_pc' = "sleep"
              /\ UNCHANGED <<failed, error, log_failures>>
         ELSE /\ MonRaise("log")
              /\ log_failures' = log_failures + 1
              /\ hist' = HistoryAfterLogError(hist)
              /\ UNCHANGED <<csv, ok_cycles>>
    /\ UNCHANGED <<call_vars, variant, boot_time, running, latest_reading, measuring, humidity_cmds, now>>
    /\ UNCHANGED <<main_vars, disp_vars>>
    /\ UNCHANGED <<add_i, cycle, air_quality, results, pms_data, reading>>
    /\ UNCHANGED <<calls, cell_writes, restarts>>

\* The locals of the loop (air_quality, results, pms_data, reading) keep
\* what a cycle assigned to them until a later cycle assigns them again.
EndCycle ==
    UNCHANGED <<air_quality, results, pms_data, reading>>

\* time.sleep(self.update_interval)
MonSleep ==
    /\ mon_pc = "sleep"
    /\ mon_pc' = "top"
    /\ EndCycle
    /\ UNCHANGED <<call_vars, variant, boot_time, shared_vars, main_vars, disp_vars, ghost_vars>>
    /\ UNCHANGED <<add_i, cycle, error>>

\* An except clause that only sleeps, in analyse.py as well.
AfterBackoffSleepsOnly(v) == "top"

\* except Exception: print(...); time.sleep(1); analyse.py then restarts the
\* CO2 sensor, monitor.py goes back to the top of the loop.
AfterBackoff(v) == IF v = "analyse" THEN "restart" ELSE "top"

\* An except clause that empties the cell.
CellClearedAfterFailure(c) == None

\* The except clause assigns nothing to self.latest_reading: the cell keeps
\* what it held when the cycle failed.
CellAfterFailure(c) == c

MonExcept ==
    /\ mon_pc = "except"
    /\ mon_pc' = AfterBackoff(variant)
    /\ latest_reading' = CellAfterFailure(latest_reading)
    /\ IF AfterBackoff(variant) = "restart"
       THEN UNCHANGED <<error, air_quality, results, pms_data, reading>>
       ELSE error' = "none" /\ EndCycle
    /\ UNCHANGED <<call_vars, variant, boot_time, running, lock, hist, csv, measuring, humidity_cmds, now>>
    /\ UNCHANGED <<main_vars, disp_vars, ghost_vars>>
    /\ UNCHANGED <<add_i, cycle>>

\* A restart whose error is not caught: it ends the loop.
RestartErrorEscapes == "done"

\* The error of a failed restart is caught and printed: the loop goes on.
AfterRestartError == "top"

\* try: self.scd41.start_periodic_measurement() except Exception: print(...)

MonRestart ==
    /\ mon_pc = "restart"
    /\ restarts' = restarts + 1
    /\ \E ok \in BOOLEAN :
         IF ok
         THEN /\ measuring' = TRUE
              /\ mon_pc' = "top"
         ELSE /\ UNCHANGED measuring
              /\ mon_pc' = AfterRestartError
    /\ UNCHANGED <<call_vars, variant, boot_time, running, lock, latest_reading, hist, csv, humidity_cmds, now>>
    /\ UNCHANGED <<main_vars, disp_vars>>
    /\ UNCHANGED <<add_i, cycle>>
    /\ EndCycle
    /\ error' = "none"
    /\ UNCHANGED <<calls, cell_writes, ok_cycles, failed, log_failures>>

MonitoringLoop ==
    \/ MonCheckRunning
    \/ MonReadVoc
    \/ MonReadCo2
    \/ MonReadPms
    \/ MonCheckResults
    \/ MonCompensate
    \/ MonAssemble
    \/ MonAcquire
    \/ MonSetCell
    \/ MonAddField
    \/ MonCsvWrite
    \/ MonSleep
    \/ MonExcept
    \/ MonRestart

\* ---------------------------------------------------------- _display_loop
\* The page drawn at time t: int(time.time() / 6) % 4 in analyse.py,
\* int(time.time() / 4) % 3 in DisplayManager.update.
PageSeconds(v) == IF v = "analyse" THEN 6 ELSE 4
PageCount(v) == IF v = "analyse" THEN 4 ELSE 3

\* A rotation that takes the remainder before the quotient.
PageRemainderFirst(t, page_seconds, page_count) == (t % page_count) \div page_seconds

\* int(t / page_seconds) % page_count.  The time is a number of whole
\* seconds: for t >= 0, int(t / s) is the quotient of the whole seconds of
\* t by s.
PageAt(t, page_seconds, page_count) == (t \div page_seconds) % page_count

PageOf(v, t) == PageAt(t, PageSeconds(v), PageCount(v))

\* The page renderers in the order of the branches that call them: the
\* methods of analyse.py, and in DisplayManager.update the reading type given
\* to _draw_reading_page.
PageRenderers(v) ==
    IF v = "analyse"
    THEN <<"_draw_temp_humidity", "_draw_co2", "_draw_voc", "_draw_pm">>
    ELSE <<"co2", "tvoc", "pm2.5">>

\* A chain of separate if statements, the else belonging to the last one.
DrawnByIndependentIfs(v, p) ==
    LET renderers == PageRenderers(v)
        last == Len(renderers)
    IN (IF p + 1 < last THEN <<renderers[p + 1]>> ELSE <<>>)
       \o (IF p + 1 # last - 1 THEN <<renderers[last]>> ELSE <<>>)

\* if page == 0: ... elif page == 1: ... else: ...: the renderers called for
\* page p, the last one in the else branch.
DrawnBy(v, p) ==
    LET renderers == PageRenderers(v)
        last == Len(renderers)
    IN IF p + 1 < last THEN <<renderers[p + 1]>> ELSE <<renderers[last]>>

\* The deques the page renderers of analyse.py hand to _draw_trend_arrow,
\* in the order of the calls; DisplayManager reads no history.
TrendFields(v, p) ==
    IF v = "analyse"
    THEN CASE p = 0 -> <<"temperature", "humidity">>
           [] p = 1 -> <<"co2">>
           [] p = 2 -> <<"tvoc", "eco2">>
           [] OTHER -> <<"pm25", "pm100">>
    ELSE <<>>

\* The first n elements of a list instead of the last.
FirstN(s, n) ==
    IF Len(s) <= n THEN s ELSE SubSeq(s, 1, n)

\* s[-n:] of a Python list, n > 0.
LastN(s, n) ==
    IF Len(s) <= n THEN s ELSE SubSeq(s, Len(s) - n + 1, Len(s))

\* The deque d after the Samples of the sequence cs were appended to it.
Projection(cs, d) == [j \in 1..Len(cs) |-> SampleField(cs[j], d)]

\* The history after k complete add_reading calls.
HistoryAfter(k) ==
    [d \in DOMAIN hist |-> LastN(Projection(SubSeq(calls, 1, k), d), MaxHistory)]

\* Every deque holds the same Samples: no add_reading call is half done.
Lockstep == \E k \in 0..Len(calls) : hist = HistoryAfter(k)

\* while self.running:
DispCheckRunning ==
    /\ disp_pc = "top"
    /\ disp_pc' = IF LoopCondition(running) THEN "acquire" ELSE "done"
    /\ UNCHANGED <<call_vars, variant, boot_time, shared_vars, main_vars, mon_vars, ghost_vars>>
    /\ UNCHANGED <<d_reading, page, trend_i, seen, frame, push_result>>

\* with self.reading_lock:
DispAcquire ==
    /\ disp_pc = "acquire"
    /\ lock = "free"
    /\ lock' = "display"
    /\ disp_pc' = "read_cell"
    /\ UNCHANGED <<call_vars, variant, boot_time, running, latest_reading, hist, csv, measuring, humidity_cmds, now>>
    /\ UNCHANGED <<main_vars, mon_vars, ghost_vars>>
    /\ UNCHANGED <<d_reading, page, trend_i, seen, frame, push_result>>

\* A loop that draws a frame whatever it read from the cell.
DrawsWhateverRead(r) == "draw"

\* if reading: a frame is drawn only for a reading that is not None (an
\* AirQualityReading, a tuple of nine fields, is always true).
AfterCellRead(r) == IF r # None THEN "draw" ELSE "sleep"

\* A read that empties the cell.
CellEmptiedByRead(c) == None

\* reading = self.latest_reading binds a local name: the cell keeps what it
\* holds.
CellAfterRead(c) == c

\* reading = self.latest_reading, the end of the with block, if reading:
DispReadCell ==
    /\ disp_pc = "read_cell"
    /\ d_reading' = latest_reading
    /\ latest_reading' = CellAfterRead(latest_reading)
    /\ lock' = EndOfWithBlock(lock)
    /\ disp_pc' = AfterCellRead(latest_reading)
    /\ UNCHANGED <<call_vars, variant, boot_time, running, hist, csv, measuring, humidity_cmds, now>>
    /\ UNCHANGED <<main_vars, mon_vars, ghost_vars>>
    /\ UNCHANGED <<page, trend_i, seen, frame, push_result>>

\* page = int(time.time() / ...) % ...
DispSelectPage ==
    /\ disp_pc = "draw"
    /\ page' = PageOf(variant, now)
    /\ seen' = <<>>
    /\ IF TrendFields(variant, PageOf(variant, now)) # <<>>
       THEN /\ trend_i' = 1
            /\ disp_pc' = "trend"
       ELSE /\ trend_i' = 0
            /\ disp_pc' = "push"
    /\ UNCHANGED <<call_vars, variant, boot_time, shared_vars, main_vars, mon_vars, ghost_vars>>
    /\ UNCHANGED <<d_reading, frame, push_result>>

\* The number of values _draw_trend_arrow reads: list(history)[-5:].
TrendWindow == 5

\* _draw_trend_arrow(draw, x, y, current, history): list(history)[-5:] of
\* one deque, read without the lock.
TrendRead(d) ==
    [field |-> d,
     values |-> LastN(hist[d], TrendWindow),
     locked |-> (lock = "display"),
     lockstep |-> Lockstep]

DispTrend ==
    /\ disp_pc = "trend"
    /\ seen' = Append(seen, TrendRead(TrendFields(variant, page)[trend_i]))
    /\ IF trend_i = Len(TrendFields(variant, page))
       THEN /\ trend_i' = 0
            /\ disp_pc' = "push"
       ELSE /\ trend_i' = trend_i + 1
            /\ UNCHANGED disp_pc
    /\ UNCHANGED <<call_vars, variant, boot_time, shared_vars, main_vars, mon_vars, ghost_vars>>
    /\ UNCHANGED <<d_reading, page, frame, push_result>>

\* A failed push that ends the rendering loop.
PushErrorEndsLoop(v) == "done"

\* self.display.display(image): analyse.py catches a failure next to the
\* call and sleeps 0.1 s; in monitor.py it leaves DisplayManager.update and
\* reaches the except clause of the loop.
AfterPushError(v) == IF v = "analyse" THEN "sleep" ELSE "except"

DispPush ==
    /\ disp_pc = "push"
    /\ \E ok \in BOOLEAN :
         IF ok
         THEN /\ frame' = d_reading
              /\ push_result' = "ok"
              /\ disp_pc' = "sleep"
         ELSE /\ UNCHANGED frame
              /\ push_result' = "failed"
              /\ disp_pc' = AfterPushError(variant)
    /\ UNCHANGED <<call_vars, variant, boot_time, shared_vars, main_vars, mon_vars, ghost_vars>>
    /\ UNCHANGED <<d_reading, page, trend_i, seen>>

\* The locals of one iteration (reading, page, the image drawn) are written
\* again before the next iteration reads them: the iteration ends with
\* them cleared.
EndIteration ==
    /\ disp_pc' = "top"
    /\ d_reading' = None
    /\ page' = 0
    /\ trend_i' = 0
    /\ seen' = <<>>
    /\ push_result' = "none"
    /\ UNCHANGED frame

\* time.sleep(0.1)
DispSleep ==
    /\ disp_pc = "sleep"
    /\ EndIteration
    /\ UNCHANGED <<call_vars, variant, boot_time, shared_vars, main_vars, mon_vars, ghost_vars>>

\* except Exception: print(...); time.sleep(1)
DispExcept ==
    /\ disp_pc = "except"
    /\ EndIteration
    /\ UNCHANGED <<call_vars, variant, boot_time, shared_vars, main_vars, mon_vars, ghost_vars>>

DisplayLoop ==
    \/ DispCheckRunning
    \/ DispAcquire
    \/ DispReadCell
    \/ DispSelectPage
    \/ DispTrend
    \/ DispPush
    \/ DispSleep
    \/ DispExcept

\* ------------------------------------------------------- start() and stop()
\* self.running = True; self.monitor_thread.start()
StartMonitorThread ==
    /\ main_pc = "constructed"
    /\ running' = TRUE
    /\ mon_pc' = "top"
    /\ main_pc' = "start_display"
    /\ UNCHANGED <<call_vars, variant, boot_time, lock, latest_reading, hist, csv, measuring, humidity_cmds, now>>
    /\ UNCHANGED <<released, stop_error, disp_vars, ghost_vars>>
    /\ UNCHANGED <<add_i, cycle, air_quality, results, pms_data, reading, error>>

\* self.display_thread.start()
StartDisplayThread ==
    /\ main_pc = "start_display"
    /\ disp_pc' = "top"
    /\ main_pc' = "started"
    /\ UNCHANGED <<call_vars, variant, boot_time, shared_vars, released, stop_error, mon_vars, ghost_vars>>
    /\ UNCHANGED <<d_reading, page, trend_i, seen, frame, push_result>>

\* stop(): self.running = False
StopClearFlag ==
    /\ main_pc = "started"
    /\ running' = FALSE
    /\ main_pc' = "join_monitor"
    /\ UNCHANGED <<call_vars, variant, boot_time, lock, latest_reading, hist, csv, measuring, humidity_cmds, now>>
    /\ UNCHANGED <<released, stop_error, mon_vars, disp_vars, ghost_vars>>

\* A join that returns at once, whatever the thread is doing.
JoinedWithoutWaiting(pc) == TRUE

\* Thread.join() returns once the thread's loop has ended.

Joined(pc) == pc = "done"

\* stop(): self.monitor_thread.join()
StopJoinMonitor ==
    /\ main_pc = "join_monitor"
    /\ Joined(mon_pc)
    /\ main_pc' = "join_display"
    /\ UNCHANGED <<call_vars, variant, boot_time, shared_vars, released, stop_error, mon_vars, disp_vars, ghost_vars>>

\* stop(): self.display_thread.join()
StopJoinDisplay ==
    /\ main_pc = "join_display"
    /\ Joined(disp_pc)
    /\ main_pc' = "stop_sensor"
    /\ UNCHANGED <<call_vars, variant, boot_time, shared_vars, released, stop_error, mon_vars, disp_vars, ghost_vars>>

\* stop(): self.scd41.stop_periodic_measurement(), which may fail.
StopPeriodicMeasurement ==
    /\ main_pc = "stop_sensor"
    /\ released' = TRUE
    /\ \E ok \in BOOLEAN :
         /\ measuring' = IF ok THEN FALSE ELSE measuring
         /\ stop_error' = ~ok
    /\ main_pc' = "stopped"
    /\ UNCHANGED <<call_vars, variant, boot_time, running, lock, latest_reading, hist, csv, humidity_cmds, now>>
    /\ UNCHANGED <<mon_vars, disp_vars, ghost_vars>>

MainThread ==
    \/ StartMonitorThread
    \/ StartDisplayThread
    \/ StopClearFlag
    \/ StopJoinMonitor
    \/ StopJoinDisplay
    \/ StopPeriodicMeasurement

\* The wall clock advances by one second.  The clock is read by the page
\* selection alone, so that it is enough for it to advance when the
\* rendering loop is about to read it.
Tick ==
    /\ now - boot_time < MaxElapsed
    /\ disp_pc = "draw"
    /\ now' = now + 1
    /\ UNCHANGED <<call_vars, variant, boot_time, running, lock, latest_reading, hist, csv, measuring, humidity_cmds>>
    /\ UNCHANGED <<main_vars, mon_vars, disp_vars, ghost_vars>>

Next ==
    \/ MonitoringLoop
    \/ DisplayLoop
    \/ MainThread
    \/ Tick

Spec == Init /\ [][Next]_vars

\* The steps of start() and of stop() after their first.  Whether start()
\* and stop() are called at all is up to the caller; a start() that has
\* started the first thread goes on to start the second, and a stop() that
\* has cleared the flag goes on to the joins.
CallerSteps ==
    \/ StartDisplayThread
    \/ StopJoinMonitor
    \/ StopJoinDisplay
    \/ StopPeriodicMeasurement

\* Every sensor call, display push and log write returns: each thread that
\* can take a step takes one.
LiveSpec ==
    /\ Spec
    /\ WF_vars(MonitoringLoop)
    /\ WF_vars(DisplayLoop)
    /\ WF_vars(CallerSteps)

\* The positions of _monitoring_loop at a call of a sensor driver.
SensorCalls == {"read_voc", "read_co2", "read_pms", "compensate", "restart"}

\* The steps of _monitoring_loop that are not a call of a sensor driver.
MonitoringLoopOwnSteps == mon_pc \notin SensorCalls /\ MonitoringLoop

\* The steps of _display_loop that are not the display push.
DisplayLoopOwnSteps == disp_pc # "push" /\ DisplayLoop

\* A sensor call or a display push may never return: the steps of each
\* thread that are not such a call are taken when they can be.
HangSpec ==
    /\ Spec
    /\ WF_vars(MonitoringLoopOwnSteps)
    /\ WF_vars(DisplayLoopOwnSteps)
    /\ WF_vars(CallerSteps)

\* A step in which no driver call and no log write raises: the one failure
\* left to a cycle is the None that measure() returns while periodic
\* measurement is off, and a restart turns periodic measurement on.
CallsSucceed ==
    /\ error' \in {error, "none", "nodata"}
    /\ log_failures' = log_failures
    /\ restarts' # restarts => measuring'

RecoveryNext == Next /\ CallsSucceed

\* A run with sensors, log and display that work: every call returns
\* without an error, and each thread that can take a step takes one.  The
\* rendering loop holds reading_lock for one assignment and then sleeps
\* 0.1 s with the lock free, so that the acquisition loop, waiting for the
\* lock, gets it: the lock being free again and again is enough.
RecoverySpec ==
    /\ Init
    /\ [][RecoveryNext]_vars
    /\ WF_vars(MonitoringLoop /\ CallsSucceed)
    /\ WF_vars(DisplayLoop /\ CallsSucceed)
    /\ SF_vars(MonAcquire)

\* ------------------------------------------------- the methods on their own
\* The longest history handed to _draw_trend_arrow.
MaxLen == 6
\* The latest wall-clock time, in seconds, a page is selected at.
MaxClock == 24

\* float("inf"): it is not below itself.
Infinity == 1000000

\* self.indicators of analyse.py: for each indicator the three ranges, in
\* the order of the dictionary.
Indicators ==
    [co2 |-> <<[status |-> "good", min_val |-> 0, max_val |-> 800],
               [status |-> "warning", min_val |-> 800, max_val |-> 1200],
               [status |-> "bad", min_val |-> 1200, max_val |-> Infinity]>>,
     tvoc |-> <<[status |-> "good", min_val |-> 0, max_val |-> 220],
                [status |-> "warning", min_val |-> 220, max_val |-> 660],
                [status |-> "bad", min_val |-> 660, max_val |-> Infinity]>>,
     pm25 |-> <<[status |-> "good", min_val |-> 0, max_val |-> 12],
                [status |-> "warning", min_val |-> 12, max_val |-> 35],
                [status |-> "bad", min_val |-> 35, max_val |-> Infinity]>>]

\* A range that contains its upper bound.
InClosedRange(value, min_val, max_val) == min_val <= value /\ value <= max_val

\* min_val <= value < max_val
InRange(value, min_val, max_val) == min_val <= value /\ value < max_val

\* _get_status: the status of the first range that holds the value, "bad"
\* when the loop ends without one.
GetStatus(value, indicator_type) ==
    LET ranges == Indicators[indicator_type]
        hits == {i \in 1..Len(ranges) :
                    InRange(value, ranges[i].min_val, ranges[i].max_val)}
    IN IF hits = {}
       THEN "bad"
       ELSE ranges[CHOOSE i \in hits : \A j \in hits : i <= j].status

\* sum(...) of a list of numbers.
RECURSIVE Sum(_)
Sum(s) == IF s = <<>> THEN 0 ELSE s[1] + Sum(Tail(s))

\* abs(x)
Abs(x) == IF x < 0 THEN 0 - x ELSE x

\* The divisor of recent_avg = sum(list(history)[-5:]) / 5.
TrendDivisor == 5

\* _draw_trend_arrow: what is drawn ("none": the early return) and the
\* values read from the history.  recent_avg is a quotient by TrendDivisor;
\* both comparisons are made on TrendDivisor times their operands, which
\* are whole numbers.
DrawTrendArrow(current, history, threshold) ==
    IF Len(history) < 2
    THEN [arrow |-> "none"]
    ELSE LET recent == LastN(history, TrendWindow)
             excess == TrendDivisor * current - Sum(recent)
         IN [arrow |-> IF Abs(excess) < TrendDivisor * threshold THEN "flat"
                       ELSE IF excess > 0 THEN "rising"
                       ELSE "falling",
             recent |-> recent]

\* The unit of the fixed-point numbers below: 1 / FixedUnit.
FixedUnit == 10000

\* np.exp(x / FixedUnit) * FixedUnit, for 0 <= x <= 3 * FixedUnit: the sum
\* of the terms x^k / k! of the series, each rounded down, up to the first
\* that is rounded down to zero.
RECURSIVE ExpSeries(_, _, _)
ExpSeries(x, k, term) ==
    IF term = 0 THEN 0
    ELSE term + ExpSeries(x, k + 1, (term * x) \div (FixedUnit * k))

Exp(x) == ExpSeries(x, 1, FixedUnit)

\* A saturation pressure that does not depend on the temperature.
SaturationPressureAtZero(temperature) == 6112

\* pvs = 6.112 * np.exp((17.62 * temperature) / (243.12 + temperature)),
\* in thousandths.
SaturationPressure(temperature) ==
    (6112 * Exp((1762 * temperature * FixedUnit) \div (24312 + 100 * temperature)))
        \div FixedUnit

\* _calculate_absolute_humidity: int(abs_humidity * 256) with
\* abs_humidity = (relative_humidity * pvs * 2.1674) / temp_k and
\* temp_k = temperature + 273.15, for whole degrees and per cent.  The
\* quotient by temp_k is taken in thousandths and the factor
\* 2.1674 * 256 = 554.85 applied to it.
CalculateAbsoluteHumidity(temperature, relative_humidity) ==
    LET pvs == SaturationPressure(temperature)
        temp_k == 100 * temperature + 27315
        per_kelvin == (relative_humidity * pvs * 100) \div temp_k
    IN (per_kelvin * 55485) \div 100000

\* _draw_co2: status = self._get_status(reading.co2, "co2"), and VENTILATE!
\* drawn if status == "bad".
DrawCo2(r) ==
    LET status == GetStatus(r.co2, "co2")
    IN [status |-> status, advisory |-> status = "bad"]

\* _draw_voc: the same with reading.tvoc and "tvoc".
DrawVoc(r) ==
    LET status == GetStatus(r.tvoc, "tvoc")
    IN [status |-> status, advisory |-> status = "bad"]

\* A particulate page that draws the advisory text from warning on.
DrawPmAdvisesOnWarning(r) ==
    LET status == GetStatus(r.pm25, "pm25")
    IN [status |-> status, advisory |-> status # "good"]

\* _draw_pm: the same with reading.pm25 and "pm25".
DrawPm(r) ==
    LET status == GetStatus(r.pm25, "pm25")
    IN [status |-> status, advisory |-> status = "bad"]

\* int(num / den) of Python for den > 0: the quotient rounded towards zero.
TruncToInt(num, den) ==
    IF num >= 0 THEN num \div den ELSE 0 - ((0 - num) \div den)

\* _draw_progress_bar of analyse.py:
\* fill_width = int((min(value, max_value) / max_value) * width), and the
\* inner rectangle drawn if fill_width > 0.  For whole values the quotient
\* is taken after the product.
DrawProgressBar(value, max_value, width) ==
    LET fill_width == TruncToInt(Min(value, max_value) * width, max_value)
    IN [fill_width |-> fill_width, filled |-> fill_width > 0]

\* self.indicators of DisplayManager: the bounds of each gauge.
DisplayIndicators ==
    "co2" :> [min |-> 400, max |-> 2000]
    @@ "tvoc" :> [min |-> 0, max |-> 1000]
    @@ "pm2.5" :> [min |-> 0, max |-> 50]

Max(a, b) == IF a > b THEN a ELSE b

\* math.log(x / FixedUnit) * FixedUnit for 1 <= x / FixedUnit <= 5: the
\* largest y between lo and hi whose exponential is at most x.
RECURSIVE LnBisect(_, _, _)
LnBisect(lo, hi, x) ==
    IF hi - lo <= 1 THEN lo
    ELSE LET mid == (lo + hi) \div 2
         IN IF Exp(mid) <= x THEN LnBisect(mid, hi, x) ELSE LnBisect(lo, mid, x)

Ln(x) == LnBisect(0, 2 * FixedUnit, x)

\* DisplayManager._normalize_value, as the fraction num / den: the value is
\* clamped to [min, max]; co2 is scaled by logarithms,
\* (log(value) - log(min)) / (log(max) - log(min)), taken here as
\* log(value / min) / log(max / min), the others linearly.
NormalizeValue(value, indicator_type) ==
    LET ranges == DisplayIndicators[indicator_type]
        min_val == ranges.min
        max_val == ranges.max
        clamped == Max(Min(value, max_val), min_val)
    IN IF indicator_type = "co2"
       THEN [num |-> Ln((clamped * FixedUnit) \div min_val),
             den |-> Ln((max_val * FixedUnit) \div min_val)]
       ELSE [num |-> clamped - min_val, den |-> max_val - min_val]

\* DisplayManager._draw_horizontal_gauge:
\* current_width = int(value_normalized * width), always filled.
DrawHorizontalGauge(value, indicator_type, width) ==
    LET value_normalized == NormalizeValue(value, indicator_type)
    IN [fill_width |-> TruncToInt(value_normalized.num * width, value_normalized.den),
        filled |-> TRUE]

\* The arguments the methods are called with.
BarTemperatures == {0 - 5, 0, 1, 10, 21, 39, 40, 45}
Co2Values == {0, 399, 400, 401, 800, 1199, 1200, 1999, 2000, 2001, 5000}
TvocValues == {0, 1, 300, 659, 660, 999, 1000, 1500}
Pm25Values == {0, 1, 12, 34, 35, 49, 50, 60}

\* The readings the pages are drawn for: the three classified fields.
PageReadings == [co2 : {799, 1199, 1200, 5000}, tvoc : {0, 659, 660}, pm25 : {12, 34, 35}]

\* The value and max_value of the calls of _draw_progress_bar in the page
\* renderers of analyse.py.
ProgressBarArguments ==
    {<<t, 40>> : t \in BarTemperatures}
    \cup {<<h, 100>> : h \in {0, 45, 100}}
    \cup {<<Min(c, 2000), 2000>> : c \in Co2Values}
    \cup {<<Min(v, 1000), 1000>> : v \in TvocValues}
    \cup {<<Min(p, 50), 50>> : p \in Pm25Values}

\* The value and indicator_type of the calls of _draw_horizontal_gauge in
\* _draw_reading_page.
GaugeArguments ==
    {<<c, "co2">> : c \in Co2Values}
    \cup {<<v, "tvoc">> : v \in TvocValues}
    \cup {<<p, "pm2.5">> : p \in Pm25Values}

StatusValues ==
    {0 - 1, 0, 1, 11, 12, 13, 34, 35, 36, 219, 220, 221, 659, 660, 661,
     799, 800, 801, 1199, 1200, 1201, 5000, Infinity}
TrendValues == {0, 20}
TrendCurrents == {0, 4, 10, 20}
Temperatures == {0, 10, 21, 30, 40}
Humidities == {0, 45, 100}

RECURSIVE SeqsUpTo(_, _)
SeqsUpTo(S, n) ==
    IF n = 0 THEN {<<>>}
    ELSE LET shorter == SeqsUpTo(S, n - 1)
         IN shorter \cup {Append(q, x) : q \in shorter, x \in S}

\* The calls of the methods: _get_status and _draw_trend_arrow are methods
\* of analyse.py alone; a page is selected for a reading, at a time.
Calls(v) ==
    [f : {"select_page"}, time : 0..MaxClock, reading : {SampleOf(1), SampleOf(2)}]
    \cup [f : {"_calculate_absolute_humidity"},
          temperature : Temperatures, relative_humidity : Humidities]
    \cup IF v # "analyse"
         THEN {[f |-> "_draw_horizontal_gauge", value |-> a[1],
                indicator_type |-> a[2], width |-> 108] : a \in GaugeArguments}
         ELSE {[f |-> "_draw_progress_bar", value |-> a[1], max_value |-> a[2],
                width |-> 124] : a \in ProgressBarArguments}
              \cup [f : {"_draw_co2", "_draw_voc", "_draw_pm"}, reading : PageReadings]
              \cup [f : {"_get_status"}, value : StatusValues,
                    indicator_type : DOMAIN Indicators]
              \cup [f : {"_draw_trend_arrow"}, current : TrendCurrents,
                    history : SeqsUpTo(TrendValues, MaxLen), threshold : {5}]

\* A constructed monitor and one call of a method on it.
CallInit ==
    /\ Constructed
    /\ call \in Calls(variant)
    /\ ret = None

\* return status / return "bad"
GetStatusReturns ==
    /\ call.f = "_get_status"
    /\ ret = None
    /\ ret' = [value |-> GetStatus(call.value, call.indicator_type)]
    /\ UNCHANGED <<call, variant, boot_time, shared_vars, main_vars, mon_vars, disp_vars, ghost_vars>>

\* page = int(time.time() / ...) % ... and the if / elif / else chain that
\* follows it.
SelectPageReturns ==
    /\ call.f = "select_page"
    /\ ret = None
    /\ ret' = [value |-> PageOf(variant, call.time),
               drawn_by |-> DrawnBy(variant, PageOf(variant, call.time))]
    /\ UNCHANGED <<call, variant, boot_time, shared_vars, main_vars, mon_vars, disp_vars, ghost_vars>>

\* _draw_trend_arrow returns, an arrow drawn or not.
DrawTrendArrowReturns ==
    /\ call.f = "_draw_trend_arrow"
    /\ ret = None
    /\ ret' = DrawTrendArrow(call.current, call.history, call.threshold)
    /\ UNCHANGED <<call, variant, boot_time, shared_vars, main_vars, mon_vars, disp_vars, ghost_vars>>

\* return int(abs_humidity * 256)
CalculateAbsoluteHumidityReturns ==
    /\ call.f = "_calculate_absolute_humidity"
    /\ ret = None
    /\ ret' = [value |-> CalculateAbsoluteHumidity(call.temperature, call.relative_humidity)]
    /\ UNCHANGED <<call, variant, boot_time, shared_vars, main_vars, mon_vars, disp_vars, ghost_vars>>

\* _draw_progress_bar returns, the bar drawn.
DrawProgressBarReturns ==
    /\ call.f = "_draw_progress_bar"
    /\ ret = None
    /\ ret' = DrawProgressBar(call.value, call.max_value, call.width)
    /\ UNCHANGED <<call, variant, boot_time, shared_vars, main_vars, mon_vars, disp_vars, ghost_vars>>

\* _draw_horizontal_gauge returns, the gauge drawn.
DrawHorizontalGaugeReturns ==
    /\ call.f = "_draw_horizontal_gauge"
    /\ ret = None
    /\ ret' = DrawHorizontalGauge(call.value, call.indicator_type, call.width)
    /\ UNCHANGED <<call, variant, boot_time, shared_vars, main_vars, mon_vars, disp_vars, ghost_vars>>

\* _draw_co2 returns, the page drawn.
DrawCo2Returns ==
    /\ call.f = "_draw_co2"
    /\ ret = None
    /\ ret' = DrawCo2(call.reading)
    /\ UNCHANGED <<call, variant, boot_time, shared_vars, main_vars, mon_vars, disp_vars, ghost_vars>>

\* _draw_voc returns, the page drawn.
DrawVocReturns ==
    /\ call.f = "_draw_voc"
    /\ ret = None
    /\ ret' = DrawVoc(call.reading)
    /\ UNCHANGED <<call, variant, boot_time, shared_vars, main_vars, mon_vars, disp_vars, ghost_vars>>

\* _draw_pm returns, the page drawn.
DrawPmReturns ==
    /\ call.f = "_draw_pm"
    /\ ret = None
    /\ ret' = DrawPm(call.reading)
    /\ UNCHANGED <<call, variant, boot_time, shared_vars, main_vars, mon_vars, disp_vars, ghost_vars>>

CallNext ==
    \/ DrawCo2Returns
    \/ DrawVocReturns
    \/ DrawPmReturns
    \/ DrawProgressBarReturns
    \/ DrawHorizontalGaugeReturns
    \/ GetStatusReturns
    \/ SelectPageReturns
    \/ DrawTrendArrowReturns
    \/ CalculateAbsoluteHumidityReturns

CallSpec == CallInit /\ [][CallNext]_vars

\* ------------------------------------------------------------------ claims
\* The position of deque d in the order of the appends of add_reading.
DequeIndex(d) == CHOOSE i \in 1..Len(AddOrder) : AddOrder[i] = d

\* Number of add_reading calls that have appended to deque d so far.
AppendsTo(d) ==
    IF mon_pc = "add_reading" /\ DequeIndex(d) >= add_i
    THEN Len(calls) - 1
    ELSE Len(calls)

\* The last element of a non-empty sequence.
Last(q) == q[Len(q)]

\* The row of the log that is the projection of Sample r: the date-time of
\* its timestamp, then the field each column of the header names.
IsRowOf(line, r) ==
    /\ Len(line) = Len(Header)
    /\ line[1] = FromTimestamp(r.timestamp)
    /\ \A col \in 2..Len(Header) : line[col] = r[Header[col]]

\* No add_reading call is between its first append and its log write.
OutsideAddReading == mon_pc \notin {"add_reading", "csv_write"}

\* C1: after k appends to a deque of capacity N the deque has length
\* min(k, N) <= N and holds the last min(k, N) appended values in the order
\* of the appends, the oldest value being the one evicted.
C1_RingBufferHoldsLastN ==
    \A d \in DOMAIN hist :
        LET k == AppendsTo(d)
            n == Len(hist[d])
        IN /\ n <= MaxHistory
           /\ n = Min(k, MaxHistory)
           /\ \A j \in 1..n : hist[d][j] = SampleField(calls[k - n + j], d)

\* More calls than the capacity: the oldest value has been evicted.
C1_Witness ==
    /\ Len(calls) > MaxHistory
    /\ mon_pc = "sleep"
    /\ hist["co2"][1] = calls[Len(calls) - MaxHistory + 1].co2
    /\ hist["co2"][1] # calls[1].co2

\* C2: the rendering loop never observes a half-written Sample: no history
\* read of a frame is made while some deque holds a Sample that another
\* deque or the timestamp deque does not hold yet, and the cell is never read
\* while the history lacks the Sample it holds.
C2_NoHalfWrittenSampleObserved ==
    /\ \A i \in 1..Len(seen) : seen[i].lockstep
    /\ (disp_pc = "read_cell" /\ latest_reading # None) =>
          \A d \in DOMAIN hist :
              /\ hist[d] # <<>>
              /\ Last(hist[d]) = SampleField(latest_reading, d)

\* C3: when k cycles have succeeded and no log write has failed, every
\* deque has length min(k, N), the cell holds the Sample of the last
\* successful cycle (nothing before the first), and the log is the header
\* followed by the rows of the k Samples in the order they were accepted.
C3_SuccessfulCyclesRecorded ==
    (OutsideAddReading /\ log_failures = 0) =>
        LET k == Len(ok_cycles)
        IN /\ \A d \in DOMAIN hist : Len(hist[d]) = Min(k, MaxHistory)
           /\ latest_reading = IF k = 0 THEN None ELSE SampleOf(ok_cycles[k])
           /\ Len(csv) = k + 1
           /\ csv[1] = Header
           /\ \A j \in 1..k :
                IsRowOf(csv[j + 1], SampleOf(ok_cycles[j]))

\* More successful cycles than the capacity, no log write failed.
C3_Witness ==
    /\ Len(ok_cycles) > MaxHistory
    /\ log_failures = 0
    /\ mon_pc = "top"
    /\ Len(csv) = Len(ok_cycles) + 1

\* C4: at the end of every acquisition cycle the number of restart calls
\* (start_periodic_measurement) made by the loop equals the number of failed
\* cycles, and, no log write having failed, the failed cycles are the only
\* ones missing from the history.
C4_OneRestartPerFailedCycle ==
    mon_pc \in {"top", "done"} =>
        /\ restarts = failed
        /\ log_failures = 0 =>
              Len(hist["timestamps"]) = Min(cycle - failed, MaxHistory)

\* A step from the except clause, or from the restart after it, stays there
\* or reaches the top of the loop.
HandlerLeadsToTop ==
    mon_pc \in {"except", "restart"} => mon_pc' \in {"except", "restart", "top"}

\* A step from the top of the loop, the running flag set, stays there or
\* starts a cycle.
RunningLoopStartsCycle ==
    (mon_pc = "top" /\ running) => mon_pc' \in {"top", "read_voc"}

\* C5: a failure never ends the acquisition loop: the loop has ended only if
\* the running flag was cleared, a failed cycle is in the except clause or
\* in the restart that follows it and leaves them only for the top of the
\* loop, and a cycle that succeeds, however many cycles failed before it, has
\* its Sample in the cell and in the history.
C5_FailuresNeverEndTheLoop ==
    /\ [](mon_pc = "done" => ~running)
    /\ [](error # "none" => mon_pc \in {"except", "restart"})
    /\ [][HandlerLeadsToTop]_vars
    /\ [][RunningLoopStartsCycle]_vars
    /\ [](mon_pc = "sleep" =>
             /\ latest_reading = SampleOf(cycle)
             /\ \A d \in DOMAIN hist : Last(hist[d]) = SampleField(SampleOf(cycle), d)
             /\ Last(ok_cycles) = cycle)

\* The last cycle of a run succeeds after every cycle before it failed.
C5_Witness ==
    /\ running
    /\ mon_pc = "sleep"
    /\ failed = MaxCycles - 1
    /\ ok_cycles = <<MaxCycles>>
    /\ latest_reading = SampleOf(MaxCycles)

\* C6 as stated: once add_reading has ended, the log holds one data row per
\* Sample ever appended to the deques, row i being the projection of the
\* i-th appended Sample.
C6_LogRowPerAppendedSample ==
    OutsideAddReading =>
        /\ Len(csv) - 1 = Len(calls)
        /\ \A i \in 1..Len(calls) : i + 1 <= Len(csv) /\ IsRowOf(csv[i + 1], calls[i])

\* The appended Samples whose log write succeeded, in the order of the calls.
RECURSIVE Logged(_)
Logged(cs) ==
    IF cs = <<>> THEN <<>>
    ELSE IF \E j \in 1..Len(ok_cycles) : cs[1] = SampleOf(ok_cycles[j])
         THEN <<cs[1]>> \o Logged(Tail(cs))
         ELSE Logged(Tail(cs))

\* C6 amended: once add_reading has ended, the number of data rows is the
\* number of Samples appended to the deques minus the number of add_reading
\* calls whose log write failed, and row i is the projection of the i-th
\* appended Sample among those whose log write succeeded.
C6_LogRowPerLoggedSample ==
    OutsideAddReading =>
        /\ Len(csv) - 1 = Len(calls) - log_failures
        /\ Len(Logged(calls)) = Len(csv) - 1
        /\ \A i \in 1..Len(csv) - 1 : IsRowOf(csv[i + 1], Logged(calls)[i])

\* A log write has failed and another has succeeded.
C6_Witness ==
    /\ mon_pc = "top"
    /\ log_failures > 0
    /\ Len(csv) > 1
    /\ Len(calls) > Len(csv) - 1

\* C7: when the log write of add_reading fails, the error reaches the except
\* clause of the loop and nothing is undone: every deque still ends with
\* its field of the Sample, the nine deques have one length, the cell holds
\* the Sample, and the log has no row for it.
C7_LogFailureKeepsMemory ==
    error = "log" =>
        /\ mon_pc \in {"except", "restart"}
        /\ lock # "monitor"
        /\ latest_reading = reading
        /\ \A d \in DOMAIN hist :
              /\ hist[d] # <<>>
              /\ Last(hist[d]) = SampleField(reading, d)
              /\ Len(hist[d]) = Len(hist["timestamps"])
              /\ Len(hist[d]) = Min(Len(calls), MaxHistory)
        /\ \A j \in 2..Len(csv) : ~IsRowOf(csv[j], reading)

\* The log write of a Sample fails, the deques full, the log holding rows.
C7_Witness ==
    /\ error = "log"
    /\ mon_pc = "except"
    /\ Len(calls) > MaxHistory
    /\ Len(csv) > 1

\* C8: outside add_reading the eight field deques have the length of the
\* timestamp deque, and index j of every deque holds a field of one Sample.
C8_DequesInLockstep ==
    mon_pc # "add_reading" =>
        /\ \A d \in DOMAIN hist : Len(hist[d]) = Len(hist["timestamps"])
        /\ \A j \in 1..Len(hist["timestamps"]) :
              \E i \in 1..Len(calls) :
                  \A d \in DOMAIN hist : hist[d][j] = SampleField(calls[i], d)

\* A call has ended with a failed log write and a value has been evicted.
C8_Witness ==
    /\ mon_pc = "top"
    /\ log_failures > 0
    /\ Len(calls) > MaxHistory
    /\ Len(hist["pm100"]) = MaxHistory

\* C9: the three reads of a cycle come before the cell write, the cell
\* write before the history append, and the Samples appended to the history
\* are the Samples written to the cell, in the same order.
C9_ReadsThenCellThenHistory ==
    /\ mon_pc \in {"acquire", "set_cell"} =>
          /\ air_quality = AirQuality(cycle)
          /\ results = Scd(cycle)
          /\ pms_data = Pms(cycle)
          /\ reading = SampleOf(cycle)
          /\ latest_reading # reading
          /\ \A j \in 1..Len(hist["timestamps"]) :
                hist["timestamps"][j] # reading.timestamp
    /\ mon_pc \in {"add_reading", "csv_write"} =>
          /\ latest_reading = reading
          /\ Last(cell_writes) = reading
    /\ latest_reading = IF cell_writes = <<>> THEN None ELSE Last(cell_writes)
    /\ OutsideAddReading =>
          \A d \in DOMAIN hist :
              LET k == Len(cell_writes)
                  n == Len(hist[d])
              IN /\ n = Min(k, MaxHistory)
                 /\ \A j \in 1..n :
                       hist[d][j] = SampleField(cell_writes[k - n + j], d)

\* The cell holds a new Sample and the history does not hold it yet.
C9_Witness ==
    /\ mon_pc = "add_reading"
    /\ add_i = 1
    /\ Len(cell_writes) > MaxHistory
    /\ failed = 0
    /\ Last(hist["timestamps"]) = SampleOf(cycle - 1).timestamp

\* C10: stop() clears the running flag, then waits for the acquisition loop
\* and for the rendering loop, and calls stop_periodic_measurement only when
\* both have ended: once it is called neither loop is at a sensor read, a
\* restart or a display push, nor will be.
C10_SensorReleasedAfterBothLoops ==
    /\ main_pc \in {"join_monitor", "join_display", "stop_sensor", "stopped"} => ~running
    /\ main_pc \in {"join_display", "stop_sensor", "stopped"} => mon_pc = "done"
    /\ main_pc \in {"stop_sensor", "stopped"} => disp_pc = "done"
    /\ released => main_pc = "stopped" /\ mon_pc = "done" /\ disp_pc = "done"

\* stop() has returned after a run with accepted Samples, pushed frames
\* and a failed cycle.
C10_Witness ==
    /\ released
    /\ main_pc = "stopped"
    /\ ok_cycles # <<>>
    /\ frame # None
    /\ failed > 0

\* Once the flag is cleared, a flag check of the acquisition loop ends the
\* loop, no new cycle starts, and the ended loop writes nothing.
ClearedFlagEndsAcquisition ==
    /\ (~running /\ mon_pc = "top") => mon_pc' \in {"top", "done"}
    /\ ~running => cycle' = cycle
    /\ mon_pc = "done" =>
          /\ mon_pc' = "done"
          /\ UNCHANGED <<latest_reading, hist, csv, calls, cell_writes>>

\* Once the flag is cleared, a flag check of the rendering loop ends the
\* loop, and the ended loop pushes no frame.
ClearedFlagEndsRendering ==
    /\ (~running /\ disp_pc = "top") => disp_pc' \in {"top", "done"}
    /\ disp_pc = "done" => disp_pc' = "done" /\ UNCHANGED <<frame, push_result>>

\* C11: after the running flag is cleared, all calls returning, both loops
\* end and stop() returns; the acquisition loop starts no cycle after the
\* flag is cleared, and an iteration whose flag check sees the cleared flag
\* ends the loop without accepting a Sample or pushing a frame.
C11_StopEventuallyReturns ==
    /\ (main_pc = "join_monitor") ~>
          (main_pc = "stopped" /\ mon_pc = "done" /\ disp_pc = "done")
    /\ [][ClearedFlagEndsAcquisition]_vars
    /\ [][ClearedFlagEndsRendering]_vars

\* The flag is cleared while the acquisition loop is inside add_reading and
\* the rendering loop is at the display push.
C11_Witness ==
    /\ main_pc = "join_monitor"
    /\ ~running
    /\ mon_pc = "add_reading"
    /\ disp_pc = "push"

\* A sensor call of the acquisition loop never returns, the loop running
\* and the cell holding a Sample.
SensorCallHangs == running /\ mon_pc \in SensorCalls /\ latest_reading # None

\* The display push of the rendering loop never returns, the loop running.
DisplayPushHangs == running /\ disp_pc = "push"

\* C12: no lock is held at a sensor call or while a frame is drawn and
\* pushed.  When a sensor call never returns and every display push does,
\* the rendering loop pushes again and again a frame of the Sample the cell
\* holds; when a display push never returns, the acquisition loop is never
\* kept waiting for the lock: unless one of its own sensor calls never
\* returns it runs every cycle of the run.
C12_HangStallsOneLoopOnly ==
    /\ [](mon_pc \in SensorCalls => lock # "monitor")
    /\ [](disp_pc \in {"draw", "trend", "push"} => lock # "display")
    /\ (<>[]SensorCallHangs /\ []<>(disp_pc # "push")) =>
          /\ []<>(disp_pc = "read_cell")
          /\ []<>(disp_pc = "push" /\ d_reading = latest_reading)
    /\ <>[]DisplayPushHangs =>
          \/ <>[](mon_pc \in SensorCalls)
          \/ <>(mon_pc = "top" /\ cycle = MaxCycles)

\* Both loops are at their blocking call, the lock free: the acquisition
\* loop at a sensor call, the rendering loop pushing a second frame of the
\* Sample the cell holds.
C12_Witness ==
    /\ running
    /\ mon_pc \in SensorCalls
    /\ disp_pc = "push"
    /\ lock = "free"
    /\ latest_reading # None
    /\ d_reading = latest_reading
    /\ frame = latest_reading

\* C13: no frame is drawn or pushed while the cell is empty: an iteration
\* that draws or pushes holds a Sample it read from the cell, a push was
\* made only of such a Sample, and the Sample of the last frame pushed was
\* written to the cell before.
C13_NoFrameWhileCellEmpty ==
    /\ disp_pc \in {"draw", "trend", "push"} =>
          /\ d_reading # None
          /\ latest_reading # None
          /\ \E i \in 1..Len(cell_writes) : d_reading = cell_writes[i]
    /\ push_result # "none" => d_reading # None
    /\ latest_reading = None => frame = None /\ push_result = "none"
    /\ frame # None => \E i \in 1..Len(cell_writes) : frame = cell_writes[i]

\* The rendering loop has read the empty cell and skips the tick; no frame
\* was pushed so far, the acquisition loop having failed a cycle.
C13_Witness ==
    /\ disp_pc = "sleep"
    /\ d_reading = None
    /\ latest_reading = None
    /\ frame = None
    /\ failed > 0
    /\ running

\* A failed push leaves the cell and the history as they are.
PushLeavesMemory ==
    disp_pc = "push" /\ disp_pc' # "push" => UNCHANGED <<latest_reading, hist, csv>>

\* After a failed push the rendering loop sleeps and goes back to the top
\* of the loop, where, the flag set, it starts another tick.
FailedPushLeadsToNextTick ==
    /\ push_result = "failed" => disp_pc' \in {"sleep", "except", "top"}
    /\ (disp_pc = "top" /\ running) => disp_pc' \in {"top", "acquire"}
    /\ disp_pc = "read_cell" /\ disp_pc' # "read_cell" => d_reading' = latest_reading

\* C14: a failed display push leaves the rendering loop in its sleep (or in
\* the except clause of the loop) and changes neither the cell nor the
\* history; from there the loop goes to its top and, unless the flag is
\* cleared, runs a tick that reads the cell again and reaches the push with
\* the Sample the cell held at that read.
C14_FailedPushIsRetried ==
    /\ [](push_result = "failed" =>
             /\ disp_pc \in {"sleep", "except"}
             /\ disp_pc = AfterPushError(variant)
             /\ lock # "display")
    /\ [][PushLeavesMemory]_vars
    /\ [][FailedPushLeadsToNextTick]_vars
    /\ [](disp_pc = "push" => push_result = "none" /\ d_reading # None)
    /\ (push_result = "failed") ~> (disp_pc = "push" \/ ~running)

\* A push has failed after an earlier frame was pushed, and the cell holds a
\* Sample newer than that frame: the next frame differs from the last.
C14_Witness ==
    /\ push_result = "failed"
    /\ running
    /\ frame # None
    /\ latest_reading # frame
    /\ latest_reading # d_reading

\* The Sample accepted last (None: none was accepted).
LastAccepted == IF calls = <<>> THEN None ELSE Last(calls)

\* A read of the cell returns the Sample accepted last and leaves the cell
\* and the history as they are.
CellReadIsNonDestructive ==
    disp_pc = "read_cell" /\ disp_pc' # "read_cell" =>
        /\ d_reading' = LastAccepted
        /\ UNCHANGED <<latest_reading, hist, csv>>

\* The cell changes only by the assignment of the acquisition loop, made
\* with the lock held, and then holds the Sample the loop assembled.
OnlyAcquisitionWritesCell ==
    latest_reading' # latest_reading =>
        /\ mon_pc = "set_cell"
        /\ lock = "monitor"
        /\ latest_reading' = reading
        /\ UNCHANGED disp_vars

\* C15: the cell is empty or holds one Sample, the Sample accepted last;
\* only the assignment of the acquisition loop changes it, and a read by
\* the rendering loop returns the Sample accepted last and changes neither
\* the cell nor the history.
C15_CellHoldsLastAcceptedSample ==
    /\ [](latest_reading = LastAccepted)
    /\ [](latest_reading = None \/ \E c \in 1..MaxCycles : latest_reading = SampleOf(c))
    /\ [][CellReadIsNonDestructive]_vars
    /\ [][OnlyAcquisitionWritesCell]_vars

\* The rendering loop has read the second accepted Sample after it pushed a
\* frame of the first; the cell still holds the Sample read.
C15_Witness ==
    /\ disp_pc = "draw"
    /\ Len(calls) >= 2
    /\ frame = calls[Len(calls) - 1]
    /\ d_reading = Last(calls)
    /\ latest_reading = d_reading
    /\ \A d \in DOMAIN hist : Last(hist[d]) = SampleField(d_reading, d)

\* The call of method f has returned.
Returned(f) == call.f = f /\ ret # None

\* C16: _get_status returns one of good, warning and bad for every value
\* and indicator; at most one range of an indicator holds a value; the
\* ranges are half-open, so that a value equal to the lower bound of
\* warning is warning and one equal to the lower bound of bad is bad; every
\* value from the lower bound of bad on, infinity included, is bad, and so
\* is a value below zero, which no range holds.
C16_StatusIsTotalAndHalfOpen ==
    Returned("_get_status") =>
        LET v == call.value
            ranges == Indicators[call.indicator_type]
            warning_from == ranges[2].min_val
            bad_from == ranges[3].min_val
            holding == {i \in 1..Len(ranges) :
                           ranges[i].min_val <= v /\ v < ranges[i].max_val}
        IN /\ ret.value \in {"good", "warning", "bad"}
           /\ Cardinality(holding) <= 1
           /\ ret.value = "good" <=> (0 <= v /\ v < warning_from)
           /\ ret.value = "warning" <=> (warning_from <= v /\ v < bad_from)
           /\ ret.value = "bad" <=> (v < 0 \/ bad_from <= v)
           /\ v = Infinity => holding = {} /\ ret.value = "bad"

\* A value equal to the bound between warning and bad is classified.
C16_Witness ==
    /\ Returned("_get_status")
    /\ call.indicator_type = "pm25"
    /\ call.value = Indicators["pm25"][2].max_val
    /\ call.value = Indicators["pm25"][3].min_val
    /\ ret.value = "bad"

\* C17: the page selected at time t is floor(t / page_seconds) mod
\* page_count: it lies in 0..page_count - 1, it is the position of t in the
\* rotation whatever the reading is, and with 6 seconds a page and 3 pages
\* the times 0, 6 and 17 select the pages 0, 1 and 2.
C17_PageIsFunctionOfTime ==
    /\ PageAt(0, 6, 3) = 0
    /\ PageAt(6, 6, 3) = 1
    /\ PageAt(17, 6, 3) = 2
    /\ Returned("select_page") =>
          LET page_seconds == PageSeconds(variant)
              page_count == PageCount(variant)
          IN /\ ret.value \in 0..page_count - 1
             /\ \E rotation \in 0..call.time, second \in 0..page_seconds - 1 :
                   call.time =
                       (rotation * page_count + ret.value) * page_seconds + second

\* A page is selected in the second rotation of analyse.py, in the last
\* second of the page.
C17_Witness ==
    /\ Returned("select_page")
    /\ variant = "analyse"
    /\ call.time = 17
    /\ call.reading = SampleOf(2)
    /\ ret.value = 2

\* C18: the values _draw_trend_arrow reads from a deque are its last
\* min(5, length) values, in the order they were appended.
C18_TrendReadIsSuffix ==
    (Returned("_draw_trend_arrow") /\ Len(call.history) >= 2) =>
        LET h == call.history
            got == ret.recent
        IN /\ Len(got) = Min(TrendWindow, Len(h))
           /\ Len(got) <= TrendWindow
           /\ \A j \in 1..Len(got) : got[j] = h[Len(h) - Len(got) + j]

\* More values than are read, the oldest differing from those read.
C18_Witness ==
    /\ Returned("_draw_trend_arrow")
    /\ Len(call.history) = TrendWindow + 1
    /\ call.history[1] = 20
    /\ ret.recent = <<0, 0, 0, 0, 20>>

\* int(abs_humidity * 256) as the source computes it in floating point, for
\* the temperatures and humidities of the calls.
ReferenceHumidity ==
    [t \in Temperatures, h \in Humidities |->
        CASE h = 0 -> 0
          [] t = 0 /\ h = 45 -> 558
          [] t = 0 /\ h = 100 -> 1241
          [] t = 10 /\ h = 45 -> 1081
          [] t = 10 /\ h = 100 -> 2402
          [] t = 21 /\ h = 45 -> 2105
          [] t = 21 /\ h = 100 -> 4679
          [] t = 30 /\ h = 45 -> 3487
          [] t = 30 /\ h = 100 -> 7748
          [] t = 40 /\ h = 45 -> 5874
          [] t = 40 /\ h = 100 -> 13054]

\* C19 as stated: for 21 degrees and 45 per cent the result is about 1698
\* (within 5 per cent of it).
C19_ExampleIsAbout1698 ==
    (Returned("_calculate_absolute_humidity")
        /\ call.temperature = 21 /\ call.relative_humidity = 45) =>
        Abs(ret.value - 1698) * 100 <= 5 * 1698

\* C19 amended: _calculate_absolute_humidity returns the formula's value in
\* 8.8 fixed point (within 2 units of the floating-point result), and for
\* 21 degrees and 45 per cent that value is about 2105.
C19_ExampleIsAbout2105 ==
    Returned("_calculate_absolute_humidity") =>
        /\ Abs(ret.value - ReferenceHumidity[call.temperature, call.relative_humidity]) <= 2
        /\ (call.temperature = 21 /\ call.relative_humidity = 45) =>
              Abs(ret.value - 2105) <= 2

\* The example of the claim has been computed.
C19_Witness ==
    /\ Returned("_calculate_absolute_humidity")
    /\ call.temperature = 21
    /\ call.relative_humidity = 45
    /\ ret.value > 2000

\* The trend of a value against the mean of the values read.
TrendAgainstMean(current, recent, threshold) ==
    LET excess == Len(recent) * current - Sum(recent)
    IN IF Abs(excess) < Len(recent) * threshold THEN "flat"
       ELSE IF excess > 0 THEN "rising"
       ELSE "falling"

\* C20: no arrow is drawn for fewer than 2 recorded values; otherwise the
\* arrow compares the current value with the mean of the last 5 recorded
\* values, of all of them when fewer than 5 are recorded: flat when they
\* differ by less than the threshold, rising when the current value is the
\* larger, falling otherwise.
C20_TrendComparesWithMean ==
    Returned("_draw_trend_arrow") =>
        ret.arrow =
            IF Len(call.history) < 2 THEN "none"
            ELSE TrendAgainstMean(call.current,
                                  LastN(call.history, TrendWindow), call.threshold)

\* The failures of a cycle that come from the CO2/temperature/humidity
\* sensor: its read raised, or it returned None.
Co2SensorFailures == {"co2", "nodata"}

\* A step of the except clause after a failure of the CO2 sensor goes on to
\* the restart, and the restart is followed by the top of the loop.
RestartFollowsCo2Failure ==
    /\ (mon_pc = "except" /\ error \in Co2SensorFailures /\ mon_pc' # "except") =>
           mon_pc' = "restart"
    /\ (mon_pc = "restart" /\ mon_pc' # "restart") =>
           mon_pc' = "top" /\ restarts' = restarts + 1

\* C21: start_periodic_measurement is called only in a cycle that failed by
\* the CO2 sensor (its read raised or returned None), there after the
\* backoff and before the next cycle's first read; a cycle that failed by
\* the VOC read, the particulate read or the compensation has no restart.
C21_RestartOnlyForCo2SensorFailures ==
    /\ [](mon_pc = "restart" => error \in Co2SensorFailures)
    /\ [][restarts' # restarts => error \in Co2SensorFailures]_vars
    /\ [][RestartFollowsCo2Failure]_vars

\* The failures of a cycle before its Sample is assembled: a sensor read
\* raised, the CO2 sensor returned None, or the compensation call raised.
SensorFailures == {"voc", "co2", "pms", "nodata", "compensation"}

\* The positions of a cycle outside the with block, its except clause and
\* restart included.
OutsideWithBlock ==
    {"top", "read_voc", "read_co2", "read_pms", "check", "compensate", "assemble",
     "acquire", "sleep", "except", "restart", "done"}

\* No step taken while the acquisition loop is outside its with block
\* changes the cell, a deque or the log.
StoresChangeInWithBlockOnly ==
    mon_pc \in OutsideWithBlock => UNCHANGED <<latest_reading, hist, csv>>

\* C22: a cycle that failed by a sensor error, a None result or the
\* compensation call has written nothing: the cell holds the Sample accepted
\* before the cycle, no deque and no log row holds a value of the cycle, and
\* no step of the cycle, of its except clause or of the restart changes the
\* cell, the deques or the log, whichever reads had succeeded.
C22_FailedCycleWritesNothing ==
    /\ [](error \in SensorFailures =>
             /\ mon_pc \in {"except", "restart"}
             /\ latest_reading = LastAccepted
             /\ latest_reading # SampleOf(cycle)
             /\ \A i \in 1..Len(calls) : calls[i] # SampleOf(cycle)
             /\ \A d \in DOMAIN hist : \A j \in 1..Len(hist[d]) :
                   hist[d][j] # SampleField(SampleOf(cycle), d)
             /\ \A j \in 2..Len(csv) : ~IsRowOf(csv[j], SampleOf(cycle))
             /\ Len(csv) - 1 = Len(ok_cycles))
    /\ [][StoresChangeInWithBlockOnly]_vars

\* The compensation call fails after the three reads of the cycle succeeded,
\* the cell, the deques and the log holding the Sample of an earlier cycle.
C22_Witness ==
    /\ error = "compensation"
    /\ mon_pc = "except"
    /\ air_quality = AirQuality(cycle)
    /\ results = Scd(cycle)
    /\ pms_data = Pms(cycle)
    /\ latest_reading # None
    /\ Len(hist["co2"]) > 0
    /\ Len(csv) > 1

\* The compensation command of the temperature and humidity read in cycle c.
CompensationOf(c) == [abs_humidity_of |-> <<Scd(c).temperature, Scd(c).humidity>>]

\* The number of compensation commands sent for cycle c.
CompensationsOf(c) ==
    Cardinality({j \in 1..Len(humidity_cmds) : humidity_cmds[j] = CompensationOf(c)})

\* A compensation command is sent only by the compensation step, after the
\* three reads of the cycle, and it is the command of that cycle's values.
CompensationSentAfterReads ==
    humidity_cmds' # humidity_cmds =>
        /\ mon_pc = "compensate"
        /\ air_quality = AirQuality(cycle)
        /\ results = Scd(cycle)
        /\ pms_data = Pms(cycle)
        /\ humidity_cmds' = Append(humidity_cmds, CompensationOf(cycle))
        /\ UNCHANGED <<latest_reading, hist, csv>>

\* C23: every cycle that accepts a Sample has sent one compensation command,
\* computed from the temperature and humidity of that Sample, after the
\* three reads and before the cell write; a cycle whose CO2 read returned
\* None or in which a read failed has sent none, and no cycle sends two.
C23_OneCompensationPerAcceptedSample ==
    /\ [](\A c \in 1..MaxCycles : CompensationsOf(c) <= 1)
    /\ [](\A j \in 1..Len(humidity_cmds) :
             \E c \in 1..cycle : humidity_cmds[j] = CompensationOf(c))
    /\ [](\A i \in 1..Len(calls) :
             /\ \E c \in 1..cycle : calls[i] = SampleOf(c) /\ CompensationsOf(c) = 1
             /\ \E j \in 1..Len(humidity_cmds) :
                   humidity_cmds[j].abs_humidity_of =
                       <<calls[i].temperature, calls[i].humidity>>)
    /\ [](mon_pc \in {"assemble", "acquire", "set_cell"} =>
             /\ CompensationsOf(cycle) = 1
             /\ Last(humidity_cmds) = CompensationOf(cycle)
             /\ latest_reading # SampleOf(cycle))
    /\ [](mon_pc \in {"read_voc", "read_co2", "read_pms", "check", "compensate"} =>
             CompensationsOf(cycle) = 0)
    /\ [](error \in {"voc", "co2", "pms", "nodata"} => CompensationsOf(cycle) = 0)
    /\ [][CompensationSentAfterReads]_vars

\* The second accepted Sample is written to the cell, one command sent for
\* each accepted Sample and none for a cycle that failed in between.
C23_Witness ==
    /\ mon_pc = "add_reading"
    /\ Len(calls) = 2
    /\ Len(humidity_cmds) = 2
    /\ failed > 0
    /\ cycle = MaxCycles
    /\ latest_reading = SampleOf(cycle)
    /\ Last(humidity_cmds).abs_humidity_of = <<latest_reading.temperature, latest_reading.humidity>>

\* C24: the page selected at a time depends on the time alone; one second
\* later it is the same page, or, at a multiple of page_seconds, the next
\* page in the cyclic order 0, 1, ..., page_count - 1, 0; so every page
\* stays selected for page_seconds seconds, whatever is rendered or
\* acquired in between; the frame is drawn by one renderer, that of the page.
C24_PagesRotateWithTheClock ==
    Returned("select_page") =>
        LET page_seconds == PageSeconds(variant)
            page_count == PageCount(variant)
            t == call.time
            first == t - (t % page_seconds)
            at(u) == PageAt(u, page_seconds, page_count)
        IN /\ ret.value \in 0..page_count - 1
           /\ t < page_seconds => ret.value = 0
           /\ \A u \in first..first + page_seconds - 1 : at(u) = ret.value
           /\ at(first + page_seconds) = (ret.value + 1) % page_count
           /\ first > 0 => (at(first - 1) + 1) % page_count = ret.value
           /\ at(t + page_seconds * page_count) = ret.value
           /\ ret.drawn_by = <<PageRenderers(variant)[ret.value + 1]>>

\* The last page of analyse.py is selected in its last second, before the
\* rotation starts again.
C24_Witness ==
    /\ Returned("select_page")
    /\ variant = "analyse"
    /\ call.time = PageSeconds(variant) * PageCount(variant) - 1
    /\ ret.value = PageCount(variant) - 1
    /\ ret.drawn_by = <<"_draw_pm">>

\* The call of _draw_progress_bar or of _draw_horizontal_gauge has returned.
BarDrawn == Returned("_draw_progress_bar") \/ Returned("_draw_horizontal_gauge")

\* The bounds between which the bar of the call scales its value: 0 and
\* max_value in analyse.py, the indicator's min and max in DisplayManager.
BarLowerBound ==
    IF call.f = "_draw_progress_bar" THEN 0 ELSE DisplayIndicators[call.indicator_type].min
BarUpperBound ==
    IF call.f = "_draw_progress_bar" THEN call.max_value
    ELSE DisplayIndicators[call.indicator_type].max

\* The fill width the bar of the call computes for value v.
FillWidthFor(v) ==
    IF call.f = "_draw_progress_bar"
    THEN DrawProgressBar(v, call.max_value, call.width).fill_width
    ELSE DrawHorizontalGauge(v, call.indicator_type, call.width).fill_width

\* C25: the fill width computed for a value lies between 0 and the width of
\* the bar, is 0 for a value at or below the lower bound, is the width of the
\* bar for a value at or above the maximum of the field, and does not
\* decrease when the value grows.
C25_FillWidthIsClampedAndMonotone ==
    BarDrawn =>
        /\ ret.fill_width \in 0..call.width
        /\ call.value <= BarLowerBound => ret.fill_width = 0
        /\ call.value >= BarUpperBound => ret.fill_width = call.width
        /\ ret.fill_width = FillWidthFor(call.value)
        /\ FillWidthFor(call.value) <= FillWidthFor(call.value + 1)
        /\ FillWidthFor(call.value - 1) <= FillWidthFor(call.value)

\* The field a page classifies, by the method that draws the page.
AdvisoryField ==
    [_draw_co2 |-> "co2", _draw_voc |-> "tvoc", _draw_pm |-> "pm25"]

\* C26: the CO2, VOC and particulate pages of analyse.py draw VENTILATE! if
\* and only if the status of co2, tvoc and pm25 of the Sample drawn is bad,
\* that is, when the value has reached the lower bound of the bad range of
\* its field, whatever the other fields are.
C26_AdvisoryIffStatusBad ==
    (call.f \in DOMAIN AdvisoryField /\ ret # None) =>
        LET field == AdvisoryField[call.f]
            value == call.reading[field]
        IN /\ ret.advisory <=> GetStatus(value, field) = "bad"
           /\ ret.advisory <=> (value < 0 \/ value >= Indicators[field][3].min_val)
           /\ ret.status = GetStatus(value, field)

\* The particulate page is drawn at the lower bound of bad, the CO2 of the
\* same Sample good.
C26_Witness ==
    /\ Returned("_draw_pm")
    /\ call.reading.pm25 = Indicators["pm25"][3].min_val
    /\ call.reading.co2 < Indicators["co2"][2].min_val
    /\ ret.advisory

\* C27: whenever reading_lock is free the cell is empty exactly when the
\* deques are, and a Sample in the cell is the newest entry of every deque,
\* its timestamp the last of the timestamps; so it is after a failed log
\* write as well.
C27_CellIsNewestHistoryEntry ==
    lock = "free" =>
        /\ latest_reading = None <=> hist["timestamps"] = <<>>
        /\ \A d \in DOMAIN hist : (hist[d] = <<>>) <=> (latest_reading = None)
        /\ latest_reading # None =>
              /\ Last(hist["timestamps"]) = latest_reading.timestamp
              /\ \A d \in DOMAIN hist : Last(hist[d]) = SampleField(latest_reading, d)

\* The lock is free after a failed log write, the deques full: the Sample
\* without a row is in the cell and is the newest entry.
C27_Witness ==
    /\ lock = "free"
    /\ error = "log"
    /\ Len(hist["timestamps"]) = MaxHistory
    /\ Len(calls) > MaxHistory
    /\ latest_reading = Last(calls)
    /\ Last(hist["pm100"]) = latest_reading.pm100

\* The position of Sample r among the accepted Samples (0: not accepted).
AcceptedAt(r) ==
    IF \E i \in 1..Len(calls) : calls[i] = r
    THEN CHOOSE i \in 1..Len(calls) : calls[i] = r
    ELSE 0

\* A push that changes the frame shows the Sample the tick read from the
\* cell, one accepted later than the Sample of the frame before.
FrameMovesForward ==
    frame' # frame =>
        /\ disp_pc = "push"
        /\ frame' = d_reading
        /\ AcceptedAt(frame') > 0
        /\ frame # None => AcceptedAt(frame') > AcceptedAt(frame)

\* What a tick reads is the value of the cell at the read.
TickReadsTheCell ==
    d_reading' # d_reading /\ d_reading' # None =>
        disp_pc = "read_cell" /\ d_reading' = latest_reading

\* C28: the Samples of the pushed frames never go backwards: a frame shows
\* the Sample the tick read from the cell, an accepted one, the same as the
\* frame before or one accepted later; what a tick has read is never older
\* than the last frame; and the cell, once it holds a Sample, is never empty
\* again.
C28_FramesNeverGoBackwards ==
    /\ [][FrameMovesForward]_vars
    /\ [][TickReadsTheCell]_vars
    /\ [](frame # None => AcceptedAt(frame) > 0 /\ latest_reading # None)
    /\ [](frame # None /\ d_reading # None => AcceptedAt(d_reading) >= AcceptedAt(frame))
    /\ [][latest_reading # None => latest_reading' # None]_vars

\* A tick is about to push a Sample newer than the one of the last frame,
\* and the cell already holds a newer one still.
C28_Witness ==
    /\ disp_pc = "push"
    /\ frame # None
    /\ AcceptedAt(d_reading) > AcceptedAt(frame)
    /\ AcceptedAt(latest_reading) > AcceptedAt(d_reading)
    /\ failed > 0

\* The cycle in which a value was read.
CycleOf(value) == value \div 10

\* A Sample is accepted only by the cell write, and it is the Sample of the
\* three reads of the cycle that accepts it.
AcceptsSampleOfOwnCycle ==
    calls' # calls =>
        /\ mon_pc = "set_cell"
        /\ air_quality = AirQuality(cycle)
        /\ results = Scd(cycle)
        /\ pms_data = Pms(cycle)
        /\ calls' = Append(calls, SampleOf(cycle))

\* C29: every accepted Sample holds the values the three sensors returned
\* in the one cycle that accepted it, its timestamp the one the CO2 sensor
\* returned in that cycle; what an earlier cycle read, a failed one or not,
\* is assigned again before it is used and is in no Sample of a later cycle.
C29_SampleIsOfOneCycle ==
    /\ [][AcceptsSampleOfOwnCycle]_vars
    /\ [](\A i \in 1..Len(calls) :
             LET c == CycleOf(calls[i].timestamp)
             IN /\ calls[i] = SampleOf(c)
                /\ calls[i].timestamp = Scd(c).timestamp
                /\ \A d \in DOMAIN hist : CycleOf(SampleField(calls[i], d)) = c
                /\ \A j \in 1..i - 1 : CycleOf(calls[j].timestamp) < c)
    /\ [](mon_pc = "read_co2" => air_quality = AirQuality(cycle))
    /\ [](mon_pc = "read_pms" => results \in {None, Scd(cycle)})
    /\ [](mon_pc \in {"check", "compensate"} => pms_data = Pms(cycle))
    /\ [](mon_pc \in {"assemble", "acquire", "set_cell"} =>
             /\ air_quality = AirQuality(cycle)
             /\ results = Scd(cycle)
             /\ pms_data = Pms(cycle))
    /\ [](mon_pc \in {"acquire", "set_cell", "add_reading", "csv_write"} =>
             reading = SampleOf(cycle))

\* A cycle reads the CO2 sensor while the locals still hold the CO2 and
\* particulate values of the cycle before it, which failed and whose values
\* are in no accepted Sample; a Sample of an earlier cycle was accepted.
C29_Witness ==
    /\ mon_pc = "read_co2"
    /\ cycle = MaxCycles
    /\ air_quality = AirQuality(cycle)
    /\ results = Scd(cycle - 1)
    /\ pms_data = Pms(cycle - 1)
    /\ calls = <<SampleOf(cycle - 2)>>

\* The positions of the acquisition loop inside its with block: the cell
\* write and add_reading, the log write included.
MonitorInWithBlock == {"set_cell", "add_reading", "csv_write"}

\* The loop that holds the lock can take its next step.
LockHolderCanStep ==
    /\ lock = "monitor" => ENABLED (MonSetCell \/ MonAddField \/ MonCsvWrite)
    /\ lock = "display" => ENABLED DispReadCell

\* C30: the acquisition loop holds reading_lock exactly from the cell write
\* to the end of add_reading, the rendering loop exactly while it copies the
\* cell: never across a sensor read, a restart, a push, the drawing of a
\* frame or a sleep.  The holder of the lock can always go on, so that no
\* loop waits for ever for the other; a failed log write leaves the lock
\* free, and the rendering loop can take it.
C30_LockHeldOnlyInWithBlocks ==
    /\ lock \in {"free", "monitor", "display"}
    /\ lock = "monitor" <=> mon_pc \in MonitorInWithBlock
    /\ lock = "display" <=> disp_pc = "read_cell"
    /\ mon_pc \in SensorCalls \cup {"sleep", "except"} => lock # "monitor"
    /\ disp_pc \in {"draw", "trend", "push", "sleep", "except"} => lock # "display"
    /\ LockHolderCanStep
    /\ error = "log" => lock # "monitor"
    /\ (error = "log" /\ disp_pc = "acquire") => (lock = "free" /\ ENABLED DispAcquire)

\* After a failed log write the rendering loop holds the lock and copies
\* the cell, the acquisition loop in its except clause.
C30_Witness ==
    /\ error = "log"
    /\ mon_pc = "except"
    /\ lock = "display"
    /\ disp_pc = "read_cell"
    /\ latest_reading = Last(calls)

\* Periodic measurement is switched by the restart of the acquisition loop
\* and by stop() alone, and in monitor.py by stop() alone.
MeasurementSwitchedByRestartOrStop ==
    measuring' # measuring =>
        \/ variant = "analyse" /\ mon_pc = "restart" /\ measuring'
        \/ main_pc = "stop_sensor" /\ ~measuring'

\* C31: analyse.py does not start periodic measurement at construction: its
\* first cycle gets None from measure() and fails with no data, accepting
\* nothing; the restart of the except clause turns periodic measurement on,
\* and with calls that succeed a Sample is accepted unless stop() is called
\* first.  monitor.py starts periodic measurement at construction and its
\* acquisition loop never starts it again.
C31_AnalyseStartsMeasurementByRecovery ==
    /\ [](variant = "analyse" /\ restarts = 0 => ~measuring)
    /\ [](variant = "analyse" /\ cycle = 1 =>
             /\ calls = <<>>
             /\ mon_pc \in {"check", "compensate"} => results = None
             /\ mon_pc \in {"except", "restart"} => error = "nodata")
    /\ [](variant = "analyse" /\ restarts > 0 /\ ~released => measuring)
    /\ (variant = "analyse" /\ mon_pc = "top" /\ cycle = 0) ~> (calls # <<>> \/ ~running)
    /\ [](variant = "monitor" => restarts = 0 /\ (~released => measuring))
    /\ [][MeasurementSwitchedByRestartOrStop]_vars

\* analyse.py accepts its first Sample in the cycle after the one that
\* failed with no data and restarted the sensor.
C31_Witness ==
    /\ variant = "analyse"
    /\ running
    /\ cycle = 2
    /\ failed = 1
    /\ restarts = 1
    /\ measuring
    /\ mon_pc = "add_reading"
    /\ calls = <<SampleOf(2)>>

\* stop() has returned.  stop() of analyse.py catches the error of
\* stop_periodic_measurement and returns; stop() of monitor.py has no
\* handler around the call and ends with that error.
StopReturned == main_pc = "stopped" /\ (variant = "monitor" => ~stop_error)

\* Once stop() has made its call of stop_periodic_measurement, periodic
\* measurement, the cell, the deques and the log no longer change.
NothingChangesAfterStop ==
    main_pc = "stopped" => UNCHANGED <<measuring, latest_reading, hist, csv, restarts>>

\* A restart is made only before stop() calls stop_periodic_measurement.
RestartPrecedesStop ==
    restarts' # restarts => ~released /\ main_pc \notin {"stop_sensor", "stopped"}

\* C32 as stated: after stop() has returned periodic measurement is off and
\* stays off, the cell, the deques and the log no longer change, and every
\* restart of the acquisition loop precedes the stop_periodic_measurement
\* call.
C32_MeasurementOffAfterStop ==
    /\ [](StopReturned => ~measuring)
    /\ [][NothingChangesAfterStop]_vars
    /\ [][RestartPrecedesStop]_vars
    /\ [](mon_pc = "restart" => ~released)

\* C32 amended: after stop() has returned periodic measurement is off
\* unless the stop_periodic_measurement call raised, which analyse.py
\* catches, returning with periodic measurement as it was; it no longer
\* changes, nor do the cell, the deques and the log, and every restart of
\* the acquisition loop precedes the stop_periodic_measurement call.
C32_MeasurementOffUnlessStopRaised ==
    /\ [](StopReturned /\ ~stop_error => ~measuring)
    /\ [](StopReturned /\ stop_error => variant = "analyse")
    /\ [](main_pc = "stopped" /\ measuring => stop_error)
    /\ [](stop_error => released /\ main_pc = "stopped")
    /\ [][NothingChangesAfterStop]_vars
    /\ [][RestartPrecedesStop]_vars
    /\ [](mon_pc = "restart" => ~released)

\* stop() of analyse.py has returned and periodic measurement is off, after
\* a run in which a Sample was accepted and later cycles failed and
\* restarted the sensor.
C32_Witness ==
    /\ StopReturned
    /\ ~stop_error
    /\ variant = "analyse"
    /\ ~measuring
    /\ calls # <<>>
    /\ restarts >= 2
    /\ cycle = MaxCycles

====
